---- MODULE Spec2Model ----
EXTENDS Integers, Sequences, FiniteSets, TLC

(***************************************************************************)
(* Model of detect_headings.py: font-size profiling, heading extraction,   *)
(* section content extraction and tree assembly.                           *)
(*                                                                         *)
(* Numbers.  Every float of the program (font sizes, tops, x0/x1) is an    *)
(* integer counting 1/200 of a unit, so that two-decimal inputs, the       *)
(* rounding to one decimal and the median of two sizes are all exact.      *)
(* Texts are sequences of one-character strings.                           *)
(***************************************************************************)

VARIABLES
    pdf,            \* the document: a sequence of indices into PagePool
    max_pages,      \* args.max_pages (None when the option is absent)
    json,           \* args.json
    pc,             \* position of main(): start, extract, attach, build, print, done, failed
    error,          \* the exception that ended the run ("" when none)
    size_counts,    \* Counter of rounded sizes, in insertion order: <<[size, count], ...>>
    body_size,      \* result of analyze_font_sizes
    heading_sizes,  \* result of analyze_font_sizes, descending
    p_idx,          \* extract_headings: position in page_range
    headings,       \* the flat heading list
    idx,            \* attach_section_html: loop index (0-based)
    section_lines,  \* per attached heading: the lines extended into section_lines, with their page
    spans,          \* per attached heading: [start_page, start_top, end_page, end_top]
    h_idx,          \* build_tree: position of the for loop
    nodes,          \* build_tree: the node objects, children held as references (indices)
    stack,          \* build_tree: stack of node references
    tree,           \* build_tree: root node references
    stdout,         \* what print() wrote
    words,          \* assemble_line: the argument
    line_out,       \* assemble_line: the returned (text, type), or None before the call
    cl_text,        \* classify_line_level: the argument text
    cl_median,      \* classify_line_level: the argument median_size
    cl_level,       \* classify_line_level: the returned level
    fl_lines,       \* format_lines_as_html: the argument lines
    fl_idx,         \* format_lines_as_html: number of lines the for loop has consumed
    html_parts,     \* format_lines_as_html: the blocks emitted so far
    list_buffer,    \* format_lines_as_html: the open bullet list
    table_buffer,   \* format_lines_as_html: the open table
    fl_html         \* format_lines_as_html: the returned string

vars == <<pdf, max_pages, json, pc, error, size_counts, body_size, heading_sizes,
          p_idx, headings, idx, section_lines, spans, h_idx, nodes, stack, tree,
          stdout, words, line_out, cl_text, cl_median, cl_level, fl_lines, fl_idx,
          html_parts, list_buffer, table_buffer, fl_html>>

\* the arguments, locals and result of classify_line_level and of format_lines_as_html
classify_vars == <<cl_text, cl_median, cl_level>>

format_vars == <<fl_lines, fl_idx, html_parts, list_buffer, table_buffer, fl_html>>

\* ---------------------------------------------------------------- bounds
MaxPages == 2
MaxLen == 4
MaxLevel == 4
MaxWords == 3

\* ---------------------------------------------------------------- numbers
None == -1

Pt(n) == n * 200

Cpt(n) == n * 2

Abs(x) == IF x < 0 THEN -x ELSE x

Min(a, b) == IF a < b THEN a ELSE b

\* round(x, 1): nearest multiple of 0.1, ties to the even tenth
Round1(x) ==
    LET q == x \div 20
        r == x % 20
    IN  IF r < 10 THEN q * 20
        ELSE IF r > 10 THEN (q + 1) * 20
        ELSE IF q % 2 = 0 THEN q * 20 ELSE (q + 1) * 20

GAP_THRESHOLD == 14 * 200

\* the glyphs U+2022, "-", U+2013, U+2014, U+25AA, U+2023, U+00B7, one string per character
BULLET_CHARS == {"U+2022", "-", "U+2013", "U+2014", "U+25AA", "U+2023", "U+00B7"}

size_tol == 120

\* ---------------------------------------------------------------- sequences
\* a sequence given as a function [i \in 1..n |-> e], with its elements evaluated once
ListOf(f) == SubSeq(f, 1, Len(f))

RECURSIVE Concat(_)
Concat(ss) == IF ss = << >> THEN << >> ELSE Head(ss) \o Concat(Tail(ss))

Range(s) == {s[i] : i \in DOMAIN s}

\* k1 < k2 for keys that are tuples of integers of one length (Python's tuple order)
RECURSIVE KeyLess(_, _)
KeyLess(k1, k2) ==
    IF k1 = << >> THEN FALSE
    ELSE IF Head(k1) # Head(k2) THEN Head(k1) < Head(k2)
    ELSE KeyLess(Tail(k1), Tail(k2))

\* insertion of the pair x = [k, v] into the sorted sequence s, after every pair whose
\* key is not greater (what keeps the sort stable)
RECURSIVE InsertByKey(_, _)
InsertByKey(s, x) ==
    IF s = << >> THEN <<x>>
    ELSE IF ~KeyLess(x.k, s[Len(s)].k) THEN Append(s, x)
    ELSE Append(InsertByKey(SubSeq(s, 1, Len(s) - 1), x), s[Len(s)])

RECURSIVE SortPairs(_)
SortPairs(s) ==
    IF s = << >> THEN << >>
    ELSE InsertByKey(SortPairs(SubSeq(s, 1, Len(s) - 1)), s[Len(s)])

\* sorted(s, key=Key): the stable sort of s by the tuple key Key(x)
sorted(s, Key(_)) ==
    LET p == SortPairs(ListOf([i \in DOMAIN s |-> [k |-> Key(s[i]), v |-> s[i]]]))
    IN  ListOf([i \in DOMAIN p |-> p[i].v])

\* the elements of a set of integers, ascending
RECURSIVE SetToSeq(_)
SetToSeq(S) ==
    IF S = {} THEN << >>
    ELSE LET m == CHOOSE x \in S : \A y \in S : x <= y
         IN  <<m>> \o SetToSeq(S \ {m})

Reverse(s) == ListOf([i \in DOMAIN s |-> s[Len(s) + 1 - i]])

\* ---------------------------------------------------------------- str
Whitespace == {" ", "\t", "\n"}

IsSpace(c) == c \in Whitespace

IsDigit(c) == c \in {"0", "1", "2", "3", "4", "5", "6", "7", "8", "9"}

IsUpper(c) == c \in {"A", "B", "C", "D", "E", "F", "G", "H", "I", "J", "K", "L", "M",
                     "N", "O", "P", "Q", "R", "S", "T", "U", "V", "W", "X", "Y", "Z"}

RECURSIVE lstrip(_, _)
lstrip(s, chars) ==
    IF s # << >> /\ Head(s) \in chars THEN lstrip(Tail(s), chars) ELSE s

RECURSIVE rstrip(_, _)
rstrip(s, chars) ==
    IF s # << >> /\ s[Len(s)] \in chars THEN rstrip(SubSeq(s, 1, Len(s) - 1), chars) ELSE s

strip(s) == rstrip(lstrip(s, Whitespace), Whitespace)

\* sep.join(parts)
RECURSIVE join(_, _)
join(sep, parts) ==
    IF parts = << >> THEN << >>
    ELSE IF Len(parts) = 1 THEN parts[1]
    ELSE parts[1] \o sep \o join(sep, Tail(parts))

\* html.escape(s) with quote=True
escape_char(c) ==
    CASE c = "&" -> <<"&", "a", "m", "p", ";">>
      [] c = "<" -> <<"&", "l", "t", ";">>
      [] c = ">" -> <<"&", "g", "t", ";">>
      [] c = "\"" -> <<"&", "q", "u", "o", "t", ";">>
      [] c = "'" -> <<"&", "#", "x", "2", "7", ";">>
      [] OTHER -> <<c>>

\* the replacements of s[lo..hi], joined
RECURSIVE EscapeRange(_, _, _)
EscapeRange(s, lo, hi) ==
    IF lo > hi THEN << >>
    ELSE IF lo = hi THEN escape_char(s[lo])
    ELSE LET mid == (lo + hi) \div 2
         IN  EscapeRange(s, lo, mid) \o EscapeRange(s, mid + 1, hi)

escape(s) == EscapeRange(s, 1, Len(s))

\* ---------------------------------------------------------------- documents
\* The decoder (pdfplumber) gives, per page, the words in its own order, each with
\* text, x0, x1, top and size.  A size of None is a value float() rejects.
tManual == <<"M", "a", "n", "u", "a", "l">>

tTitle == <<"T", "i", "t", "l", "e">>

t1dot == <<"1", ".">>

tINTRODUCTION == <<"I", "N", "T", "R", "O", "D", "U", "C", "T", "I", "O", "N">>

t1_1 == <<"1", ".", "1">>

tOverview == <<"O", "v", "e", "r", "v", "i", "e", "w">>

tPAIN == <<"P", "A", "I", "N">>

tMANUAL == <<"M", "A", "N", "U", "A", "L">>

t2020 == <<"2", "0", "2", "0">>

tPain == <<"P", "a", "i", "n">>

tIs == <<"i", "s">>

tCommon == <<"c", "o", "m", "m", "o", "n">>

tHere == <<"h", "e", "r", "e">>

tOne == <<"o", "n", "e">>

tTwo == <<"t", "w", "o">>

t2dot == <<"2", ".">>

tDOSES == <<"D", "O", "S", "E", "S">>

tDrug == <<"D", "r", "u", "g">>

tDose == <<"D", "o", "s", "e">>

tRoute == <<"R", "o", "u", "t", "e">>

tX == <<"x">>

tNote == <<"n", "o", "t", "e">>

tSummary == <<"S", "u", "m", "m", "a", "r", "y">>

tOf == <<"o", "f">>

tDash == <<"-">>

tAmp == <<"R", "&", "D">>

tBullet == <<"U+2022">>

tLong == [i \in 1..161 |-> "X"]

\* words of one visual row: text i starts at x0s[i] and is 30 wide
Row(texts, x0s, top, sz) ==
    ListOf([i \in DOMAIN texts |->
        [text |-> texts[i], x0 |-> Pt(x0s[i]), x1 |-> Pt(x0s[i] + 30), top |-> top, size |-> sz]])

pgEmpty == << >>

pgTitle == Row(<<tManual, tTitle>>, <<50, 85>>, Pt(50), Pt(24))

pgIntro ==
    Row(<<t1dot, tINTRODUCTION>>, <<50, 85>>, Pt(100), Pt(14))
    \o Row(<<t1_1, tOverview>>, <<50, 85>>, Pt(150), Pt(12))

\* the three lines on one page, delivered bottom line first
pgAll ==
    Row(<<t1_1, tOverview>>, <<50, 85>>, Pt(150), Pt(12))
    \o Row(<<tManual, tTitle>>, <<50, 85>>, Pt(50), Pt(24))
    \o Row(<<t1dot, tINTRODUCTION>>, <<50, 85>>, Pt(100), Pt(14))

\* a page of a manual: banner (24), three numbered headings (14), body text, a bullet
\* line and a three-column row (12), a two-word pull-quote (18); tops and sizes carry
\* sub-decimal jitter and the words are not delivered in reading order
pgSection ==
    Row(<<t2dot, tDOSES>>, <<50, 85>>, Pt(300), Pt(14))
    \o Row(<<tDrug, tDose, tRoute>>, <<50, 95, 140>>, Pt(320), Pt(12))
    \o Row(<<tPAIN, tMANUAL, t2020>>, <<50, 85, 120>>, Pt(20), Cpt(2404))
    \o Row(<<tINTRODUCTION, t1dot>>, <<85, 50>>, Pt(100), Pt(14))
    \o Row(<<tPain, tIs>>, <<50, 85>>, Cpt(12004), Cpt(1204))
    \o Row(<<tCommon, tHere>>, <<120, 155>>, Cpt(11996), Cpt(1196))
    \o Row(<<t1_1, tOverview>>, <<50, 85>>, Pt(200), Cpt(1396))
    \o Row(<<tBullet, tOne, tTwo>>, <<50, 85, 120>>, Pt(220), Pt(12))
    \o Row(<<tNote, tAmp>>, <<50, 85>>, Pt(340), Pt(18))

\* a line holding one word whose size is not a number
pgBad ==
    Row(<<tX>>, <<50>>, Pt(100), None)
    \o Row(<<tNote, tAmp>>, <<85, 120>>, Pt(100), Pt(12))

\* an over-long line at size 14, a third size (13) and a dash line with two wide gaps
pgLong ==
    Row(<<tLong>>, <<50>>, Pt(60), Pt(14))
    \o Row(<<tSummary, tOf, tPain>>, <<50, 85, 120>>, Pt(200), Pt(13))
    \o Row(<<tDash, tDrug, tDose>>, <<50, 95, 140>>, Pt(250), Cpt(1225))

PagePool == <<pgEmpty, pgTitle, pgIntro, pgAll, pgSection, pgBad, pgLong>>

\* pdfplumber.open(pdf_path).pages
pages(doc) == ListOf([i \in DOMAIN doc |-> PagePool[doc[i]]])

\* page.extract_words(extra_attrs=["fontname", "size"])
extract_words(page) == page

\* range(n_pages) or range(min(max_pages, n_pages)): the 0-based page indices scanned
page_range(doc, limit) ==
    IF limit = None THEN Len(doc) ELSE Min(limit, Len(doc))

\* ---------------------------------------------------------------- analyze_font_sizes
\* the Counter the loop over the words builds: one item per distinct rounded size, in the
\* order the sizes are first met (a Counter keeps insertion order), each with the number
\* of words that carry it; a size float() rejects is skipped
CountSizes(ws) ==
    LET parsed == {i \in DOMAIN ws : ws[i].size # None}
        firsts == {i \in parsed : \A j \in parsed :
                      j < i => Round1(ws[j].size) # Round1(ws[i].size)}
        order  == SetToSeq(firsts)
    IN  ListOf([k \in DOMAIN order |->
            [size  |-> Round1(ws[order[k]].size),
             count |-> Cardinality({j \in parsed :
                           Round1(ws[j].size) = Round1(ws[order[k]].size)})]])

ScannedWords(doc, limit) ==
    Concat(ListOf([i \in 1..page_range(doc, limit) |-> extract_words(pages(doc)[i])]))

\* max(size_counts.items(), key=lambda kv: kv[1])[0]: the first item of greatest count
MostCommon(counts) ==
    LET i == CHOOSE i \in DOMAIN counts :
                /\ \A j \in DOMAIN counts : counts[j].count <= counts[i].count
                /\ \A j \in 1..(i - 1) : counts[j].count < counts[i].count
    IN  counts[i].size

\* variant: the occurrence floor is 2 instead of 3
HeadingSizesLoose(counts, body) ==
    Reverse(SetToSeq({counts[i].size : i \in
        {j \in DOMAIN counts : counts[j].size > body + 100 /\ counts[j].count >= 2}}))

\* sizes larger than body + 0.5 that occur at least 3 times, largest first
HeadingSizes(counts, body) ==
    Reverse(SetToSeq({counts[i].size : i \in
        {j \in DOMAIN counts : counts[j].size > body + 100 /\ counts[j].count >= 3}}))

\* ---------------------------------------------------------------- classify_line_level
\* re.match(r"^\d+\.\s+[A-Z0-9 ,()/\-]+$", s)
upper_section(s) ==
    \E d \in 1..Len(s) :
        /\ \A i \in 1..d : IsDigit(s[i])
        /\ d + 1 <= Len(s)
        /\ s[d + 1] = "."
        /\ \E k \in 1..Len(s) :
              /\ d + 1 + k < Len(s)
              /\ \A i \in (d + 2)..(d + 1 + k) : IsSpace(s[i])
              /\ \A i \in (d + 2 + k)..Len(s) :
                    IsUpper(s[i]) \/ IsDigit(s[i]) \/ s[i] \in {" ", ",", "(", ")", "/", "-"}

\* re.match(r"^\d+\.\d+", s)
subsection(s) ==
    \E d \in 1..Len(s) :
        /\ \A i \in 1..d : IsDigit(s[i])
        /\ d + 2 <= Len(s)
        /\ s[d + 1] = "."
        /\ IsDigit(s[d + 2])

\* variant: the loop has no break, so the last tier within tol of the median wins
RECURSIVE FindTierLast(_, _, _, _)
FindTierLast(median_size, hsizes, i, tol) ==
    IF i > Len(hsizes) THEN None
    ELSE LET later == FindTierLast(median_size, hsizes, i + 1, tol)
         IN  IF later # None THEN later
             ELSE IF Abs(median_size - hsizes[i]) <= tol THEN i
             ELSE None

\* the first tier (1 = largest heading size) within tol of the median, or None
RECURSIVE FindTier(_, _, _, _)
FindTier(median_size, hsizes, i, tol) ==
    IF i > Len(hsizes) THEN None
    ELSE IF Abs(median_size - hsizes[i]) <= tol THEN i
    ELSE FindTier(median_size, hsizes, i + 1, tol)

classify_line_level(text, median_size, body, hsizes, tol) ==
    LET tier == FindTier(median_size, hsizes, 1, tol)
        text_stripped == strip(text)
    IN  IF tier = None THEN None
        ELSE IF tier = 1 THEN 1
        ELSE IF upper_section(text_stripped) THEN 2
        ELSE IF subsection(text_stripped) THEN 3
        ELSE 2 + (tier - 2)

\* ---------------------------------------------------------------- extract_headings
\* the keys of the dict built by lines.setdefault(round(top, 1), []), in insertion order
RECURSIVE KeysInOrder(_, _)
KeysInOrder(ws, seen) ==
    IF ws = << >> THEN seen
    ELSE LET key == Round1(Head(ws).top)
         IN  KeysInOrder(Tail(ws), IF key \in Range(seen) THEN seen ELSE Append(seen, key))

TopKey(key) == <<key>>

\* variant: the lines are visited in the dict's insertion order, not sorted by top
unsorted_line_keys(ws) == KeysInOrder(ws, << >>)

\* the keys as sorted(lines.items(), key=lambda kv: kv[0]) visits them
sorted_line_keys(ws) == sorted(KeysInOrder(ws, << >>), TopKey)

\* lines[key]: the words of one line, in the decoder's order
LineWords(ws, key) == SelectSeq(ws, LAMBDA w : Round1(w.top) = key)

X0Key(w) == <<w.x0>>

SizeKey(sz) == <<sz>>

Texts(ws) == ListOf([i \in DOMAIN ws |-> ws[i].text])

\* statistics.median
median(xs) ==
    LET s == sorted(xs, SizeKey)
        n == Len(s)
    IN  IF n % 2 = 1 THEN s[(n + 1) \div 2] ELSE (s[n \div 2] + s[n \div 2 + 1]) \div 2

\* the loop over the lines of one page (page_no is 1-based); acc is the heading list so
\* far and the exception, if float(w["size"]) raised
RECURSIVE ScanLines(_, _, _, _, _, _)
ScanLines(keys, ws, page_no, body, hsizes, acc) ==
    IF keys = << >> \/ acc.error # "" THEN acc
    ELSE
        LET top == Head(keys)
            line_words_sorted == sorted(LineWords(ws, top), X0Key)
            text == strip(join(<<" ">>, Texts(line_words_sorted)))
            rest == Tail(keys)
        IN  IF text = << >> THEN ScanLines(rest, ws, page_no, body, hsizes, acc)
            ELSE IF \E i \in DOMAIN line_words_sorted : line_words_sorted[i].size = None
            THEN [acc EXCEPT !.error = "TypeError"]
            ELSE
                LET sizes == ListOf([i \in DOMAIN line_words_sorted |-> line_words_sorted[i].size])
                    median_size == median(sizes)
                    level == classify_line_level(text, median_size, body, hsizes, size_tol)
                IN  IF level = None THEN ScanLines(rest, ws, page_no, body, hsizes, acc)
                    ELSE IF Len(text) > 160
                    THEN ScanLines(rest, ws, page_no, body, hsizes, acc)
                    ELSE ScanLines(rest, ws, page_no, body, hsizes,
                            [acc EXCEPT !.headings = Append(@,
                                [id |-> Len(acc.headings), page |-> page_no, top |-> top,
                                 level |-> level, font_size |-> median_size, text |-> text])])

PageTopKey(h) == <<h.page, h.top>>

\* ---------------------------------------------------------------- assemble_line
\* the separators put between consecutive words
RECURSIVE Segments(_, _)
Segments(ws, i) ==
    IF i > Len(ws) THEN << >>
    ELSE (IF ws[i].x0 - ws[i - 1].x1 > GAP_THRESHOLD
          THEN <<" ", " ", " ", " ">> ELSE <<" ">>)
         \o ws[i].text \o Segments(ws, i + 1)

\* variant: the table test is made before the bullet test
assemble_line_table_first(ws) ==
    IF ws = << >> THEN [text |-> << >>, type |-> "blank"]
    ELSE
        LET large_gaps == Cardinality({i \in 2..Len(ws) : ws[i].x0 - ws[i - 1].x1 > GAP_THRESHOLD})
            raw == ws[1].text \o Segments(ws, 2)
            stripped == strip(raw)
        IN  IF stripped = << >> THEN [text |-> << >>, type |-> "blank"]
            ELSE IF large_gaps >= 2 THEN [text |-> raw, type |-> "table"]
            ELSE IF stripped[1] \in BULLET_CHARS THEN [text |-> stripped, type |-> "bullet"]
            ELSE [text |-> stripped, type |-> "paragraph"]

assemble_line(ws) ==
    IF ws = << >> THEN [text |-> << >>, type |-> "blank"]
    ELSE
        LET large_gaps == Cardinality({i \in 2..Len(ws) : ws[i].x0 - ws[i - 1].x1 > GAP_THRESHOLD})
            raw == ws[1].text \o Segments(ws, 2)
            stripped == strip(raw)
        IN  IF stripped = << >> THEN [text |-> << >>, type |-> "blank"]
            ELSE IF stripped[1] \in BULLET_CHARS THEN [text |-> stripped, type |-> "bullet"]
            ELSE IF large_gaps >= 2 THEN [text |-> raw, type |-> "table"]
            ELSE [text |-> stripped, type |-> "paragraph"]

\* ---------------------------------------------------------------- extract_lines_from_page
InBounds(w, min_top, max_top) ==
    /\ ~(min_top # None /\ w.top < min_top - 40)
    /\ ~(max_top # None /\ w.top >= max_top - 40)

extract_lines_from_page(page, min_top, max_top) ==
    LET ws == extract_words(page)
        kept == SelectSeq(ws, LAMBDA w : InBounds(w, min_top, max_top))
        keys == sorted(KeysInOrder(kept, << >>), TopKey)
        all == ListOf([i \in DOMAIN keys |->
                    assemble_line(sorted(LineWords(kept, keys[i]), X0Key))])
    IN  SelectSeq(all, LAMBDA l : l.text # << >>)

\* ---------------------------------------------------------------- format_lines_as_html
\* The returned string is held as the sequence of its blocks, [tag, body]: the body of a
\* "p" is its escaped text, of a "ul" its escaped items, of a "table" its rows of cells.

\* the length of the run of whitespace that starts at s[i]
RECURSIVE SpaceRun(_, _)
SpaceRun(s, i) == IF i <= Len(s) /\ IsSpace(s[i]) THEN 1 + SpaceRun(s, i + 1) ELSE 0

\* re.split(r"\s{2,}", s)
RECURSIVE SplitWide(_, _, _, _)
SplitWide(s, i, cur, out) ==
    IF i > Len(s) THEN Append(out, cur)
    ELSE IF SpaceRun(s, i) >= 2 THEN SplitWide(s, i + SpaceRun(s, i), << >>, Append(out, cur))
    ELSE SplitWide(s, i + 1, Append(cur, s[i]), out)

TableCells(row) ==
    LET parts == SplitWide(strip(row), 1, << >>, << >>)
        kept == SelectSeq(parts, LAMBDA cell : strip(cell) # << >>)
    IN  ListOf([i \in DOMAIN kept |-> escape(strip(kept[i]))])

flush_list(st) ==
    IF st.list_buffer # << >>
    THEN [st EXCEPT
            !.html_parts = Append(@, [tag |-> "ul",
                body |-> ListOf([i \in DOMAIN st.list_buffer |-> escape(st.list_buffer[i])])]),
            !.list_buffer = << >>]
    ELSE st

flush_table(st) ==
    IF st.table_buffer # << >>
    THEN LET all == ListOf([i \in DOMAIN st.table_buffer |-> TableCells(st.table_buffer[i])])
             rows == SelectSeq(all, LAMBDA cells : cells # << >>)
         IN  [st EXCEPT
                !.html_parts = IF rows # << >> THEN Append(@, [tag |-> "table", body |-> rows])
                               ELSE @,
                !.table_buffer = << >>]
    ELSE st

\* variant: a bullet line does not flush the open table and a table line does not flush
\* the open list
FormatLineNoFlush(st, line) ==
    IF line.type = "bullet"
    THEN LET stripped == strip(lstrip(line.text, BULLET_CHARS \cup {" "}))
         IN  [st EXCEPT !.list_buffer =
                Append(@, IF stripped # << >> THEN stripped ELSE strip(line.text))]
    ELSE IF line.type = "table"
    THEN [st EXCEPT !.table_buffer = Append(@, line.text)]
    ELSE IF strip(line.text) = << >>
    THEN flush_table(flush_list(st))
    ELSE LET f == flush_table(flush_list(st))
         IN  [f EXCEPT !.html_parts = Append(@, [tag |-> "p", body |-> escape(strip(line.text))])]

\* one iteration of the loop over the lines
FormatLine(st, line) ==
    IF line.type = "bullet"
    THEN LET f == flush_table(st)
             stripped == strip(lstrip(line.text, BULLET_CHARS \cup {" "}))
         IN  [f EXCEPT !.list_buffer =
                Append(@, IF stripped # << >> THEN stripped ELSE strip(line.text))]
    ELSE IF line.type = "table"
    THEN LET f == flush_list(st)
         IN  [f EXCEPT !.table_buffer = Append(@, line.text)]
    ELSE IF strip(line.text) = << >>
    THEN flush_table(flush_list(st))
    ELSE LET f == flush_table(flush_list(st))
         IN  [f EXCEPT !.html_parts = Append(@, [tag |-> "p", body |-> escape(strip(line.text))])]

RECURSIVE FormatLines(_, _)
FormatLines(st, lines) ==
    IF lines = << >> THEN st ELSE FormatLines(FormatLine(st, Head(lines)), Tail(lines))

NoTextPlaceholder == <<[tag |-> "p class=text-muted", body |-> << >>]>>

format_lines_as_html(lines) ==
    LET st0 == [html_parts |-> << >>, list_buffer |-> << >>, table_buffer |-> << >>]
        st == flush_table(flush_list(FormatLines(st0, lines)))
    IN  IF st.html_parts = << >> THEN NoTextPlaceholder ELSE st.html_parts

\* ---------------------------------------------------------------- attach_section_html
\* variant: only a strictly higher-ranked heading (next_level < heading_level) ends the span
RECURSIVE SpanEndStrict(_, _, _, _)
SpanEndStrict(hs, heading_level, j, total_pages) ==
    IF j > Len(hs) THEN [end_page |-> total_pages, end_top |-> None]
    ELSE IF heading_level = None \/ hs[j].level = None
    THEN SpanEndStrict(hs, heading_level, j + 1, total_pages)
    ELSE IF hs[j].level < heading_level
    THEN [end_page |-> hs[j].page, end_top |-> hs[j].top]
    ELSE SpanEndStrict(hs, heading_level, j + 1, total_pages)

\* the inner loop over headings[idx + 1:]: j is the 1-based position scanned next
RECURSIVE SpanEnd(_, _, _, _)
SpanEnd(hs, heading_level, j, total_pages) ==
    IF j > Len(hs) THEN [end_page |-> total_pages, end_top |-> None]
    ELSE IF heading_level = None \/ hs[j].level = None
    THEN SpanEnd(hs, heading_level, j + 1, total_pages)
    ELSE IF hs[j].level <= heading_level
    THEN [end_page |-> hs[j].page, end_top |-> hs[j].top]
    ELSE SpanEnd(hs, heading_level, j + 1, total_pages)

\* the loop over range(start_page, end_page + 1); each line keeps the page it was read from
RECURSIVE SectionLines(_, _, _, _, _, _)
SectionLines(doc, page_num, start_page, start_top, end_page, end_top) ==
    IF page_num > end_page THEN << >>
    ELSE
        LET page == pages(doc)[page_num]
            min_top == IF page_num = start_page THEN start_top + 100 ELSE None
            max_top == IF end_top # None /\ page_num = end_page THEN end_top ELSE None
            page_lines == extract_lines_from_page(page, min_top, max_top)
        IN  ListOf([i \in DOMAIN page_lines |->
                [text |-> page_lines[i].text, type |-> page_lines[i].type, page |-> page_num]])
            \o SectionLines(doc, page_num + 1, start_page, start_top, end_page, end_top)

LineOnly(l) == [text |-> l.text, type |-> l.type]

\* ---------------------------------------------------------------- build_tree
Inf == 1000000

level_value(item) == IF item.level # None THEN item.level ELSE Inf

\* variant: the pop loop compares with > instead of >=, so an equal level stays open
RECURSIVE PopStackStrict(_, _, _)
PopStackStrict(st, ns, current_level) ==
    IF st # << >> /\ level_value(ns[st[Len(st)]]) > current_level
    THEN PopStackStrict(SubSeq(st, 1, Len(st) - 1), ns, current_level)
    ELSE st

\* variant: an if in place of the while, so at most one entry is popped
PopStackOnce(st, ns, current_level) ==
    IF st # << >> /\ level_value(ns[st[Len(st)]]) >= current_level
    THEN SubSeq(st, 1, Len(st) - 1)
    ELSE st

\* while stack and level_value(stack[-1]) >= current_level: stack.pop()
RECURSIVE PopStack(_, _, _)
PopStack(st, ns, current_level) ==
    IF st # << >> /\ level_value(ns[st[Len(st)]]) >= current_level
    THEN PopStack(SubSeq(st, 1, Len(st) - 1), ns, current_level)
    ELSE st

\* variant: the node is inserted as the first child instead of appended
AttachChildFirst(ns, parent, ref) == [ns EXCEPT ![parent].children = <<ref>> \o @]

\* stack[-1]["children"].append(node)
AttachChild(ns, parent, ref) == [ns EXCEPT ![parent].children = Append(@, ref)]

\* the tree with the node references followed: what json.dumps and print_tree walk
RECURSIVE Nested(_, _)
Nested(ns, refs) ==
    ListOf([i \in DOMAIN refs |->
        [ns[refs[i]] EXCEPT !.children = Nested(ns, ns[refs[i]].children)]])

\* print_tree: one printed line per node, a node before its children
RECURSIVE TreeLines(_, _)
TreeLines(ns, refs) ==
    IF refs = << >> THEN << >>
    ELSE LET n == ns[Head(refs)]
         IN  <<[level |-> n.level, page |-> n.page, text |-> n.text]>>
             \o (IF n.children # << >> THEN TreeLines(ns, n.children) ELSE << >>)
             \o TreeLines(ns, Tail(refs))

\* ---------------------------------------------------------------- main
Docs == UNION {[1..n -> 1..Len(PagePool)] : n \in 0..MaxPages}

NoLine == [text |-> << >>, type |-> ""]

\* classify_line_level and format_lines_as_html have not been called on their own
NoClassify ==
    /\ cl_text = << >>
    /\ cl_median = None
    /\ cl_level = None

NoFormat ==
    /\ fl_lines = << >>
    /\ fl_idx = 0
    /\ html_parts = << >>
    /\ list_buffer = << >>
    /\ table_buffer = << >>
    /\ fl_html = << >>

Fresh ==
    /\ error = ""
    /\ size_counts = << >>
    /\ body_size = None
    /\ heading_sizes = << >>
    /\ p_idx = 0
    /\ idx = 0
    /\ section_lines = << >>
    /\ spans = << >>
    /\ h_idx = 0
    /\ nodes = << >>
    /\ stack = << >>
    /\ tree = << >>
    /\ stdout = << >>
    /\ line_out = NoLine
    /\ NoClassify
    /\ NoFormat

\* main() is entered with a document and the parsed arguments
Init ==
    /\ pdf \in Docs
    /\ max_pages \in {None} \cup 0..MaxPages
    /\ json \in BOOLEAN
    /\ pc = "start"
    /\ headings = << >>
    /\ words = << >>
    /\ Fresh

\* variant: an empty histogram is not an error: body size 0, no heading sizes, and the
\* run goes on
analyze_font_sizes_noraise ==
    /\ pc = "start"
    /\ LET counts == CountSizes(ScannedWords(pdf, max_pages))
       IN  IF counts = << >>
           THEN /\ size_counts' = counts
                /\ body_size' = 0
                /\ heading_sizes' = << >>
                /\ pc' = IF page_range(pdf, max_pages) = 0 THEN "print" ELSE "extract"
                /\ error' = ""
           ELSE /\ size_counts' = counts
                /\ body_size' = MostCommon(counts)
                /\ heading_sizes' = HeadingSizes(counts, MostCommon(counts))
                /\ pc' = "extract"
                /\ error' = ""
    /\ UNCHANGED <<pdf, max_pages, json, p_idx, headings, idx, section_lines, spans,
                   h_idx, nodes, stack, tree, stdout, words, line_out,
                   classify_vars, format_vars>>

\* extract_headings, first part: the call of analyze_font_sizes
analyze_font_sizes ==
    /\ pc = "start"
    /\ LET counts == CountSizes(ScannedWords(pdf, max_pages))
       IN  IF counts = << >>
           THEN /\ pc' = "failed"
                /\ error' = "RuntimeError"
                /\ UNCHANGED <<size_counts, body_size, heading_sizes>>
           ELSE /\ size_counts' = counts
                /\ body_size' = MostCommon(counts)
                /\ heading_sizes' = HeadingSizes(counts, MostCommon(counts))
                /\ pc' = "extract"
                /\ error' = ""
    /\ UNCHANGED <<pdf, max_pages, json, p_idx, headings, idx, section_lines, spans,
                   h_idx, nodes, stack, tree, stdout, words, line_out,
                   classify_vars, format_vars>>

\* extract_headings: one iteration of the loop over page_range; the iteration of the
\* last page is followed by the sort and the return
extract_page ==
    /\ pc = "extract"
    /\ p_idx < page_range(pdf, max_pages)
    /\ LET ws == extract_words(pages(pdf)[p_idx + 1])
           r == ScanLines(sorted_line_keys(ws), ws, p_idx + 1, body_size, heading_sizes,
                          [headings |-> headings, error |-> ""])
           last == p_idx + 1 = page_range(pdf, max_pages)
       IN  IF r.error # ""
           THEN /\ pc' = "failed"
                /\ error' = r.error
                /\ headings' = r.headings
                /\ p_idx' = p_idx
           ELSE /\ headings' = IF last THEN sorted(r.headings, PageTopKey) ELSE r.headings
                /\ p_idx' = p_idx + 1
                /\ pc' = IF ~last THEN "extract"
                         ELSE IF r.headings = << >> THEN "print" ELSE "attach"
                /\ error' = ""
    /\ UNCHANGED <<pdf, max_pages, json, size_counts, body_size, heading_sizes, idx,
                   section_lines, spans, h_idx, nodes, stack, tree, stdout, words, line_out,
                   classify_vars, format_vars>>

\* attach_section_html: one iteration of the loop over the headings
attach_section_html ==
    /\ pc = "attach"
    /\ idx < Len(headings)
    /\ LET heading == headings[idx + 1]
           total_pages == Len(pdf)
           start_page == heading.page
           start_top == heading.top
           e == SpanEnd(headings, heading.level, idx + 2, total_pages)
           lines == SectionLines(pdf, start_page, start_page, start_top, e.end_page, e.end_top)
           html == format_lines_as_html(ListOf([i \in DOMAIN lines |-> LineOnly(lines[i])]))
       IN  /\ headings' = [headings EXCEPT ![idx + 1] = ("content_html" :> html) @@ @]
           /\ section_lines' = Append(section_lines, lines)
           /\ spans' = Append(spans, [start_page |-> start_page, start_top |-> start_top,
                                      end_page |-> e.end_page, end_top |-> e.end_top])
    /\ idx' = idx + 1
    /\ pc' = IF idx + 1 = Len(headings) THEN "build" ELSE "attach"
    /\ UNCHANGED <<pdf, max_pages, json, error, size_counts, body_size, heading_sizes,
                   p_idx, h_idx, nodes, stack, tree, stdout, words, line_out,
                   classify_vars, format_vars>>

\* build_tree: one iteration of the loop over the headings
build_tree ==
    /\ pc = "build"
    /\ h_idx < Len(headings)
    /\ LET node == ("children" :> << >>) @@ headings[h_idx + 1]
           ref == Len(nodes) + 1
           current_level == level_value(node)
           popped == PopStack(stack, nodes, current_level)
       IN  /\ IF popped # << >>
              THEN /\ nodes' = Append(AttachChild(nodes, popped[Len(popped)], ref), node)
                   /\ tree' = tree
              ELSE /\ nodes' = Append(nodes, node)
                   /\ tree' = Append(tree, ref)
           /\ stack' = Append(popped, ref)
    /\ h_idx' = h_idx + 1
    /\ pc' = IF h_idx + 1 = Len(headings) THEN "print" ELSE "build"
    /\ UNCHANGED <<pdf, max_pages, json, error, size_counts, body_size, heading_sizes,
                   p_idx, headings, idx, section_lines, spans, stdout, words, line_out,
                   classify_vars, format_vars>>

\* main, args.json: print(json.dumps(payload, indent=2))
print_json ==
    /\ pc = "print"
    /\ json
    /\ stdout' = Append(stdout,
            [pdf |-> pdf, pdf_path |-> pdf, headings |-> Nested(nodes, tree)])
    /\ pc' = "done"
    /\ UNCHANGED <<pdf, max_pages, json, error, size_counts, body_size, heading_sizes,
                   p_idx, headings, idx, section_lines, spans, h_idx, nodes, stack, tree,
                   words, line_out,
                   classify_vars, format_vars>>

\* main, otherwise: the two summary lines, an empty line and print_tree(tree)
print_text ==
    /\ pc = "print"
    /\ ~json
    /\ stdout' = stdout
            \o <<[body_size |-> body_size], [heading_sizes |-> heading_sizes], << >>>>
            \o TreeLines(nodes, tree)
    /\ pc' = "done"
    /\ UNCHANGED <<pdf, max_pages, json, error, size_counts, body_size, heading_sizes,
                   p_idx, headings, idx, section_lines, spans, h_idx, nodes, stack, tree,
                   words, line_out,
                   classify_vars, format_vars>>

Next ==
    \/ analyze_font_sizes
    \/ extract_page
    \/ attach_section_html
    \/ build_tree
    \/ print_json
    \/ print_text

Spec == Init /\ [][Next]_vars

\* ---------------------------------------------------------------- build_tree alone
\* build_tree called on any flat heading list of at most MaxLen records with levels in
\* 1..MaxLevel, in reading order on one page
FlatList(levels) ==
    ListOf([i \in DOMAIN levels |->
        [id |-> i - 1, page |-> 1, top |-> Pt(100 * i), level |-> levels[i],
         font_size |-> Pt(14), text |-> <<"h">>, content_html |-> NoTextPlaceholder]])

InitTree ==
    /\ pdf = <<2>>
    /\ max_pages = None
    /\ json = FALSE
    /\ \E n \in 0..MaxLen : \E levels \in [1..n -> 1..MaxLevel] :
          /\ headings = FlatList(levels)
          /\ pc = IF n = 0 THEN "print" ELSE "build"
    /\ words = << >>
    /\ Fresh

NextTree == build_tree

SpecTree == InitTree /\ [][NextTree]_vars

\* ---------------------------------------------------------------- assemble_line alone
\* assemble_line called on any line of at most MaxWords words, sorted left to right
LineTexts == {tBullet, tDrug, <<"-", "5">>}

LineGaps == {Pt(5), Pt(14), Pt(14) + 2}

RECURSIVE LineOf(_, _, _)
LineOf(texts, gaps, x) ==
    IF texts = << >> THEN << >>
    ELSE <<[text |-> Head(texts), x0 |-> x, x1 |-> x + Pt(30), top |-> Pt(100),
            size |-> Pt(12)]>>
         \o (IF Len(texts) = 1 THEN << >>
             ELSE LineOf(Tail(texts), Tail(gaps), x + Pt(30) + Head(gaps)))

InitLine ==
    /\ pdf = << >>
    /\ max_pages = None
    /\ json = FALSE
    /\ pc = "line"
    /\ headings = << >>
    /\ \E n \in 0..MaxWords : \E texts \in [1..n -> LineTexts] :
          \E gaps \in [1..(IF n = 0 THEN 0 ELSE n - 1) -> LineGaps] :
             words = LineOf(texts, gaps, Pt(50))
    /\ Fresh

call_assemble_line ==
    /\ pc = "line"
    /\ line_out' = assemble_line(words)
    /\ pc' = "line_done"
    /\ UNCHANGED <<pdf, max_pages, json, error, size_counts, body_size, heading_sizes,
                   p_idx, headings, idx, section_lines, spans, h_idx, nodes, stack, tree,
                   stdout, words,
                   classify_vars, format_vars>>

NextLine == call_assemble_line

SpecLine == InitLine /\ [][NextLine]_vars

\* ================================================================ properties

\* a node without its children field: the heading record it was copied from
Record(n) == [f \in DOMAIN n \ {"children"} |-> n[f]]

\* the node references in depth-first order, a node before its children
RECURSIVE PreOrder(_, _)
PreOrder(ns, refs) ==
    IF refs = << >> THEN << >>
    ELSE <<Head(refs)>> \o PreOrder(ns, ns[Head(refs)].children) \o PreOrder(ns, Tail(refs))

\* C1: in the forest build_tree has built (at every step of the loop), every child node
\* has a level strictly greater than the level of its parent node.
C1_ChildLevelGreater ==
    \A i \in DOMAIN nodes : \A k \in DOMAIN nodes[i].children :
        nodes[nodes[i].children[k]].level > nodes[i].level

\* build_tree has returned a forest in which a child skips a level under its parent and
\* an equal-level heading became a sibling, not a child
C1_Witness ==
    /\ pc = "print"
    /\ \E i \in DOMAIN nodes : \E k \in DOMAIN nodes[i].children :
          nodes[nodes[i].children[k]].level >= nodes[i].level + 2
    /\ \E i \in DOMAIN headings : i > 1 /\ headings[i].level = headings[i - 1].level

\* C2: the span attach_section_html computes for heading i ends at the (page, top) of
\* the first later heading of the flat list whose level is <= its own, and at the last
\* page of the document, with no end top, when there is none.
C2_SpanEnd ==
    \A i \in DOMAIN spans :
        LET later == {j \in DOMAIN headings : j > i /\ headings[j].level <= headings[i].level}
        IN  IF later = {}
            THEN spans[i].end_page = Len(pdf) /\ spans[i].end_top = None
            ELSE LET j == CHOOSE m \in later : \A n \in later : m <= n
                 IN  /\ spans[i].end_page = headings[j].page
                     /\ spans[i].end_top = headings[j].top

\* levels 2, 3, 2 at tops 100, 200, 300 of one page: the spans of the first level-2
\* heading and of the level-3 heading both end at top 300
C2_Witness ==
    \E i \in DOMAIN spans :
        /\ i + 2 \in DOMAIN spans
        /\ headings[i].level = 2 /\ headings[i + 1].level = 3 /\ headings[i + 2].level = 2
        /\ headings[i].top = Pt(100) /\ headings[i + 1].top = Pt(200)
        /\ headings[i + 2].top = Pt(300)
        /\ headings[i].page = headings[i + 2].page
        /\ spans[i].end_top = Pt(300) /\ spans[i + 1].end_top = Pt(300)
        /\ spans[i + 2].end_top = None

\* C3: the nodes built so far, visited depth-first with a node before its children, are
\* the headings consumed so far, in the order of the flat list; when build_tree returns
\* the traversal is the whole flat list.
C3_PreOrderIsFlatList ==
    pc \in {"build", "print", "done"} =>
        LET order == PreOrder(nodes, tree)
        IN  /\ Len(order) = h_idx
            /\ \A i \in DOMAIN order : Record(nodes[order[i]]) = headings[i]
            /\ (pc # "build" => h_idx = Len(headings))

\* build_tree has returned a forest with two roots, one of them with two children
C3_Witness ==
    /\ pc = "print"
    /\ Len(tree) >= 2
    /\ \E i \in DOMAIN nodes : Len(nodes[i].children) >= 2

\* the number of gaps wider than 14 units between consecutive words of the line
LargeGaps(ws) == Cardinality({i \in 2..Len(ws) : ws[i].x0 - ws[i - 1].x1 > Pt(14)})

\* C4 as stated: a line assembled with two or more large gaps is typed "table", whatever
\* its first character.
C4_TableAlways ==
    (pc = "line_done" /\ LargeGaps(words) >= 2) => line_out.type = "table"

\* C4 as the code has it: a line assembled with two or more large gaps is typed "bullet"
\* when its first character is a bullet glyph, and "table" otherwise.
C4_TableUnlessBullet ==
    (pc = "line_done" /\ LargeGaps(words) >= 2) =>
        IF words[1].text[1] \in BULLET_CHARS
        THEN line_out.type = "bullet"
        ELSE line_out.type = "table"

\* a line with two large gaps has been typed "bullet"
C4_Witness ==
    /\ pc = "line_done"
    /\ LargeGaps(words) >= 2
    /\ line_out.type = "bullet"

\* C5: with a page limit N, no heading lies on a page beyond N and no line of any
\* heading's content was read from a page beyond N.
C5_PageLimit ==
    max_pages # None =>
        /\ \A i \in DOMAIN headings : headings[i].page <= max_pages
        /\ \A i \in DOMAIN section_lines : \A k \in DOMAIN section_lines[i] :
              section_lines[i][k].page <= max_pages

\* C6: a word whose size is not a number never aborts the run.
C6_BadSizeNeverAborts ==
    (\E i \in DOMAIN ScannedWords(pdf, max_pages) : ScannedWords(pdf, max_pages)[i].size = None)
        => error # "TypeError"

\* the rounded sizes of the scanned words, and how many words carry each
ParsedSizes ==
    {Round1(ScannedWords(pdf, max_pages)[i].size) :
        i \in {j \in DOMAIN ScannedWords(pdf, max_pages) :
                  ScannedWords(pdf, max_pages)[j].size # None}}

Occurrences(sz) ==
    Cardinality({i \in DOMAIN ScannedWords(pdf, max_pages) :
        /\ ScannedWords(pdf, max_pages)[i].size # None
        /\ Round1(ScannedWords(pdf, max_pages)[i].size) = sz})

\* C7: once profiling has run on a document with a parsable size, body_size is a most
\* frequent rounded size, and heading_sizes lists, in strictly descending order, exactly
\* the rounded sizes greater than body_size + 0.5 that occur at least 3 times.
C7_Profile ==
    (pc # "start" /\ ParsedSizes # {}) =>
        /\ body_size \in ParsedSizes
        /\ \A sz \in ParsedSizes : Occurrences(sz) <= Occurrences(body_size)
        /\ Range(heading_sizes) =
              {sz \in ParsedSizes : sz > body_size + 100 /\ Occurrences(sz) >= 3}
        /\ \A i \in DOMAIN heading_sizes :
              /\ i > 1 => heading_sizes[i - 1] > heading_sizes[i]
              /\ body_size < heading_sizes[i]

\* profiling found two heading sizes and left out a larger-than-body size that occurs
\* fewer than 3 times
C7_Witness ==
    /\ pc = "extract"
    /\ Len(heading_sizes) = 2
    /\ \E sz \in ParsedSizes : sz > body_size + 100 /\ Occurrences(sz) < 3

\* C8: when the scanned pages hold no parsable size, the run ends in profiling with the
\* RuntimeError: no heading is extracted, no content, no tree, and nothing is printed.
C8_ProfilingFatal ==
    (pc # "start" /\ ParsedSizes = {}) =>
        /\ pc = "failed"
        /\ error = "RuntimeError"
        /\ headings = << >>
        /\ p_idx = 0
        /\ section_lines = << >>
        /\ nodes = << >>
        /\ tree = << >>
        /\ stdout = << >>

\* profiling failed on a document that has pages
C8_Witness ==
    /\ pc = "failed"
    /\ error = "RuntimeError"
    /\ Len(pdf) > 0

IdKey(h) == <<h.id>>

\* C9: the ids of the flat heading list are 0..n-1 in list order, and the list is in
\* strictly increasing (page, top) order: ordering by id and ordering by (page, top)
\* give the list itself, before and after the final sort.
C9_IdOrder ==
    /\ \A i \in DOMAIN headings : headings[i].id = i - 1
    /\ \A i \in DOMAIN headings : \A j \in DOMAIN headings :
          i < j => KeyLess(PageTopKey(headings[i]), PageTopKey(headings[j]))
    /\ sorted(headings, IdKey) = sorted(headings, PageTopKey)

\* extract_headings has returned headings of two pages, from a page whose words the
\* decoder did not deliver top to bottom
C9_Witness ==
    /\ pc = "attach"
    /\ Len(headings) >= 5
    /\ \E i \in DOMAIN headings : headings[i].page = 2
    /\ 5 \in Range(pdf)

\* the synthetic documents of two pages with the lines "Manual Title" (24),
\* "1. INTRODUCTION" (14) and "1.1 Overview" (12) and nothing else
EndToEndDocs == {<<2, 3>>, <<4, 1>>}

tManualTitle == tManual \o <<" ">> \o tTitle

tIntroduction == t1dot \o <<" ">> \o tINTRODUCTION

tOverviewLine == t1_1 \o <<" ">> \o tOverview

\* C10 as stated: the run on such a document ends with one level-1 root, the title,
\* holding exactly one level-2 child, "1. INTRODUCTION", whose content has the paragraph
\* "1.1 Overview".
C10_TitleIntroTree ==
    (pdf \in EndToEndDocs /\ max_pages = None /\ pc = "done") =>
        /\ Len(tree) = 1
        /\ nodes[tree[1]].level = 1
        /\ nodes[tree[1]].text = tManualTitle
        /\ Len(nodes[tree[1]].children) = 1
        /\ LET c == nodes[nodes[tree[1]].children[1]]
           IN  /\ c.level = 2
               /\ c.text = tIntroduction
               /\ c.children = << >>
               /\ [tag |-> "p", body |-> tOverviewLine] \in Range(c.content_html)

\* C10 as the code has it: on such a document every size occurs twice, below the floor of
\* 3, so there is no heading size, no heading is extracted and the tree is empty.
C10_EmptyTree ==
    (pdf \in EndToEndDocs /\ max_pages = None /\ pc \notin {"start", "failed"}) =>
        /\ \A sz \in ParsedSizes : Occurrences(sz) = 2
        /\ heading_sizes = << >>
        /\ headings = << >>
        /\ nodes = << >>
        /\ tree = << >>
        /\ (pc = "done" /\ json) => stdout = <<[pdf |-> pdf, pdf_path |-> pdf, headings |-> << >>]>>

\* the run on such a document has printed its JSON
C10_Witness ==
    /\ pdf \in EndToEndDocs
    /\ max_pages = None
    /\ pc = "done"
    /\ json
    /\ stdout # << >>

\* ---------------------------------------------------------------- classify_line_level alone
\* classify_line_level called on a line text and a median size, with a font profile as
\* analyze_font_sizes returns it: heading sizes strictly descending, all above body + 0.5
TierSizes == <<Pt(24), Pt(16), Pt(14) + 80, Pt(14)>>

ClassifyTexts ==
    {tManualTitle, tIntroduction, tOverviewLine, tSummary,
     <<" ">> \o tIntroduction \o <<" ">>}

\* 24, 16, 14.2 (between two tiers), 14.6 (0.6 above 14), 15.005 (0.605 above 14.4), 12
ClassifyMedians == {Pt(24), Pt(16), Pt(14) + 40, Pt(14) + 120, Pt(15) + 1, Pt(12)}

InitClassify ==
    /\ pdf = << >>
    /\ max_pages = None
    /\ json = FALSE
    /\ pc = "classify"
    /\ headings = << >>
    /\ words = << >>
    /\ error = ""
    /\ size_counts = << >>
    /\ body_size = Pt(12)
    /\ \E S \in SUBSET DOMAIN TierSizes :
          heading_sizes = Reverse(SetToSeq({TierSizes[i] : i \in S}))
    /\ p_idx = 0
    /\ idx = 0
    /\ section_lines = << >>
    /\ spans = << >>
    /\ h_idx = 0
    /\ nodes = << >>
    /\ stack = << >>
    /\ tree = << >>
    /\ stdout = << >>
    /\ line_out = NoLine
    /\ cl_text \in ClassifyTexts
    /\ cl_median \in ClassifyMedians
    /\ cl_level = None
    /\ NoFormat

call_classify_line_level ==
    /\ pc = "classify"
    /\ cl_level' = classify_line_level(cl_text, cl_median, body_size, heading_sizes, size_tol)
    /\ pc' = "classify_done"
    /\ UNCHANGED <<pdf, max_pages, json, error, size_counts, body_size, heading_sizes,
                   p_idx, headings, idx, section_lines, spans, h_idx, nodes, stack, tree,
                   stdout, words, line_out, cl_text, cl_median, format_vars>>

NextClassify == call_classify_line_level

SpecClassify == InitClassify /\ [][NextClassify]_vars

\* the tiers (positions in heading_sizes) within the tolerance of the median
MatchingTiers == {i \in DOMAIN heading_sizes : Abs(cl_median - heading_sizes[i]) <= size_tol}

FirstMatchingTier == CHOOSE i \in MatchingTiers : \A j \in MatchingTiers : i <= j

\* C11: classify_line_level returns no level iff no heading tier is within the tolerance
\* of the median; otherwise, with t the first matching tier, it returns 1 when t = 1
\* whatever the text, and for t >= 2 it returns 2 on an "N. CAPS" text, else 3 on an
\* "N.M" prefix, else 2 + (t - 2); level 1 comes only from tier 1 and every level
\* returned is a positive integer.
C11_Classify ==
    pc = "classify_done" =>
        /\ (cl_level = None) <=> (MatchingTiers = {})
        /\ MatchingTiers # {} =>
              LET t == FirstMatchingTier
                  s == strip(cl_text)
              IN  /\ t = 1 => cl_level = 1
                  /\ t >= 2 => cl_level = IF upper_section(s) THEN 2
                                          ELSE IF subsection(s) THEN 3
                                          ELSE 2 + (t - 2)
                  /\ cl_level = 1 => t = 1
                  /\ cl_level \in Nat \ {0}

\* a median within the tolerance of two tiers, the first of them tier 3, on a text that
\* matches neither pattern: the fallback level 3 is returned
C11_Witness ==
    /\ pc = "classify_done"
    /\ Cardinality(MatchingTiers) >= 2
    /\ FirstMatchingTier = 3
    /\ ~upper_section(strip(cl_text))
    /\ ~subsection(strip(cl_text))
    /\ cl_level = 3

\* ---------------------------------------------------------------- build_tree as a function
\* build_tree(hs) after the first n iterations of its loop: the node objects, the stack
\* and the roots
RECURSIVE BuildPrefix(_, _)
BuildPrefix(hs, n) ==
    IF n = 0 THEN [nodes |-> << >>, stack |-> << >>, tree |-> << >>]
    ELSE LET b == BuildPrefix(hs, n - 1)
             node == ("children" :> << >>) @@ hs[n]
             ref == Len(b.nodes) + 1
             popped == PopStack(b.stack, b.nodes, level_value(node))
         IN  IF popped # << >>
             THEN [nodes |-> Append(AttachChild(b.nodes, popped[Len(popped)], ref), node),
                   stack |-> Append(popped, ref),
                   tree  |-> b.tree]
             ELSE [nodes |-> Append(b.nodes, node),
                   stack |-> Append(popped, ref),
                   tree  |-> Append(b.tree, ref)]

\* the nodes of the tree in pre-order, each as the dict it is (children included)
Flattened ==
    LET order == PreOrder(nodes, tree)
    IN  ListOf([i \in DOMAIN order |-> nodes[order[i]]])

Rebuilt == BuildPrefix(Flattened, Len(Flattened))

\* C12: when build_tree has returned, flattening its tree in pre-order and running
\* build_tree on the flattened sequence gives the same tree: the same nodes under the
\* same parents, siblings in the same order.
C12_RoundTrip ==
    (pc = "print" /\ h_idx = Len(headings)) =>
        Nested(Rebuilt.nodes, Rebuilt.tree) = Nested(nodes, tree)

\* the round trip on a tree of at least four nodes in which some node has two children,
\* one of them with a child of its own
C12_Witness ==
    /\ pc = "print"
    /\ Len(Rebuilt.nodes) >= 4
    /\ \E i \in DOMAIN nodes :
          /\ Len(nodes[i].children) >= 2
          /\ \E k \in DOMAIN nodes[i].children : nodes[nodes[i].children[k]].children # << >>
    /\ Nested(Rebuilt.nodes, Rebuilt.tree) = Nested(nodes, tree)

\* the references of the nodes that hold ref among their children
Parents(ref) == {i \in DOMAIN nodes : ref \in Range(nodes[i].children)}

\* the headings before heading k whose level is strictly lower than heading k's
LowerBefore(k) == {j \in 1..(k - 1) : headings[j].level < headings[k].level}

Latest(S) == CHOOSE j \in S : \A i \in S : i <= j

\* C14: at every step of build_tree, each heading consumed so far is a root exactly when
\* no earlier heading has a strictly lower level, and otherwise its one parent is the
\* nearest earlier heading with a strictly lower level, whatever the distance between
\* the two levels; a node enters its parent's children list (or the roots) at the end.
C14_NearestLowerParent ==
    pc \in {"build", "print"} =>
        /\ \A k \in DOMAIN nodes :
              IF LowerBefore(k) = {}
              THEN Parents(k) = {} /\ k \in Range(tree)
              ELSE Parents(k) = {Latest(LowerBefore(k))} /\ k \notin Range(tree)
        /\ \A i \in DOMAIN nodes : \A a, b \in DOMAIN nodes[i].children :
              a < b => nodes[i].children[a] < nodes[i].children[b]
        /\ \A a, b \in DOMAIN tree : a < b => tree[a] < tree[b]
        /\ nodes # << >> =>
              \/ Parents(Len(nodes)) = {} /\ tree[Len(tree)] = Len(nodes)
              \/ \E i \in Parents(Len(nodes)) :
                    nodes[i].children[Len(nodes[i].children)] = Len(nodes)

\* build_tree has returned, and a level-4 heading hangs directly under a level-2 heading
\* that is not the heading just before it: deeper headings were popped on the way
C14_Witness ==
    /\ pc = "print"
    /\ \E k \in DOMAIN nodes :
          /\ nodes[k].level = 4
          /\ \E i \in Parents(k) : nodes[i].level = 2 /\ i < k - 1
          /\ \A j \in 1..(k - 1) : nodes[j].level # 3

\* ---------------------------------------------------------------- the tree and the flat list
\* variant: node = h in place of node = dict(h), so node ref is record ref of the flat list
SameObjectAlias(ref) == {ref}

\* node = dict(h): a new dict whose values are the record's strings and numbers; the
\* records of the flat list that are the same object as node ref: none
SameObject(ref) == {}

\* the flat list after node[field] has been set or changed in place on node ref
StoreThrough(hs, ref, field, value) ==
    ListOf([i \in DOMAIN hs |->
        IF i \in SameObject(ref) THEN (field :> value) @@ hs[i] ELSE hs[i]])

tChanged == <<"c", "h", "a", "n", "g", "e", "d">>

\* what a caller may do to a node of the returned tree: set its text, set its level,
\* empty its children list in place
NodeChanges(n) ==
    {[field |-> "text", value |-> tChanged],
     [field |-> "level", value |-> n.level + 1],
     [field |-> "children", value |-> << >>]}

\* the caller of build_tree changes one node of the returned tree
mutate_node ==
    /\ pc = "print"
    /\ h_idx = Len(headings)
    /\ \E k \in DOMAIN nodes : \E c \in NodeChanges(nodes[k]) :
          /\ nodes' = [nodes EXCEPT ![k] = (c.field :> c.value) @@ @]
          /\ headings' = StoreThrough(headings, k, c.field, c.value)
    /\ pc' = "mutated"
    /\ UNCHANGED <<pdf, max_pages, json, error, size_counts, body_size, heading_sizes,
                   p_idx, idx, section_lines, spans, h_idx, stack, tree, stdout, words,
                   line_out, classify_vars, format_vars>>

NextMutate ==
    \/ build_tree
    \/ mutate_node

SpecMutate == InitTree /\ [][NextMutate]_vars

FormatLinePool ==
    {assemble_line(Row(<<tBullet, tOne, tTwo>>, <<50, 85, 120>>, Pt(100), Pt(12))),
     assemble_line(Row(<<tDash>>, <<50>>, Pt(100), Pt(12))),
     assemble_line(Row(<<tDrug, tDose, tRoute>>, <<50, 95, 140>>, Pt(100), Pt(12))),
     assemble_line(Row(<<tNote, tAmp>>, <<50, 85>>, Pt(100), Pt(12))),
     assemble_line(<< >>)}

InitFormat ==
    /\ pdf = << >>
    /\ max_pages = None
    /\ json = FALSE
    /\ pc = "format"
    /\ headings = << >>
    /\ words = << >>
    /\ error = ""
    /\ size_counts = << >>
    /\ body_size = None
    /\ heading_sizes = << >>
    /\ p_idx = 0
    /\ idx = 0
    /\ section_lines = << >>
    /\ spans = << >>
    /\ h_idx = 0
    /\ nodes = << >>
    /\ stack = << >>
    /\ tree = << >>
    /\ stdout = << >>
    /\ line_out = NoLine
    /\ NoClassify
    /\ \E n \in 0..MaxLen : fl_lines \in [1..n -> FormatLinePool]
    /\ fl_idx = 0
    /\ html_parts = << >>
    /\ list_buffer = << >>
    /\ table_buffer = << >>
    /\ fl_html = << >>

FormatState ==
    [html_parts |-> html_parts, list_buffer |-> list_buffer, table_buffer |-> table_buffer]

\* format_lines_as_html: one iteration of the loop over the lines
format_line ==
    /\ pc = "format"
    /\ fl_idx < Len(fl_lines)
    /\ LET st == FormatLine(FormatState, fl_lines[fl_idx + 1])
       IN  /\ html_parts' = st.html_parts
           /\ list_buffer' = st.list_buffer
           /\ table_buffer' = st.table_buffer
    /\ fl_idx' = fl_idx + 1
    /\ UNCHANGED <<pdf, max_pages, json, pc, error, size_counts, body_size, heading_sizes,
                   p_idx, headings, idx, section_lines, spans, h_idx, nodes, stack, tree,
                   stdout, words, line_out, classify_vars, fl_lines, fl_html>>

\* format_lines_as_html: after the loop, the two flushes and the return
format_return ==
    /\ pc = "format"
    /\ fl_idx = Len(fl_lines)
    /\ LET st == flush_table(flush_list(FormatState))
       IN  /\ html_parts' = st.html_parts
           /\ list_buffer' = st.list_buffer
           /\ table_buffer' = st.table_buffer
           /\ fl_html' = IF st.html_parts = << >> THEN NoTextPlaceholder ELSE st.html_parts
    /\ pc' = "format_done"
    /\ UNCHANGED <<pdf, max_pages, json, error, size_counts, body_size, heading_sizes,
                   p_idx, headings, idx, section_lines, spans, h_idx, nodes, stack, tree,
                   stdout, words, line_out, classify_vars, fl_lines, fl_idx>>

NextFormat ==
    \/ format_line
    \/ format_return

SpecFormat == InitFormat /\ [][NextFormat]_vars

\* the kind of block line i goes to: a list, a table, a paragraph, or none (blank)
BlockKind(i) ==
    IF fl_lines[i].type = "bullet" THEN "ul"
    ELSE IF fl_lines[i].type = "table" THEN "table"
    ELSE IF strip(fl_lines[i].text) # << >> THEN "p"
    ELSE "none"

\* line i opens a block: a paragraph, or the first line of a maximal run of bullet lines
\* or of table lines
OpensBlock(i) ==
    \/ BlockKind(i) = "p"
    \/ BlockKind(i) \in {"ul", "table"} /\ (i = 1 \/ BlockKind(i - 1) # BlockKind(i))

\* the number of lines of the maximal run of one kind that starts at line i
RunLength(i) ==
    CHOOSE k \in 1..(Len(fl_lines) - i + 1) :
        /\ \A j \in i..(i + k - 1) : BlockKind(j) = BlockKind(i)
        /\ (i + k > Len(fl_lines) \/ BlockKind(i + k) # BlockKind(i))

\* the blocks the lines call for, in the order of the lines: the tag, the number of list
\* items, the text of a paragraph
ExpectedBlocks ==
    LET opens == SetToSeq({i \in DOMAIN fl_lines : OpensBlock(i)})
    IN  ListOf([k \in DOMAIN opens |->
            [tag   |-> BlockKind(opens[k]),
             items |-> IF BlockKind(opens[k]) = "ul" THEN RunLength(opens[k]) ELSE 1,
             text  |-> IF BlockKind(opens[k]) = "p"
                       THEN escape(strip(fl_lines[opens[k]].text)) ELSE << >>]])

EmittedBlocks ==
    ListOf([k \in DOMAIN html_parts |->
        [tag   |-> html_parts[k].tag,
         items |-> IF html_parts[k].tag = "ul" THEN Len(html_parts[k].body) ELSE 1,
         text  |-> IF html_parts[k].tag = "p" THEN html_parts[k].body ELSE << >>]])

\* C15: at every step of format_lines_as_html the list buffer and the table buffer are
\* never both non-empty; when it returns both are empty and the blocks emitted are, in
\* the order of the lines, one list per maximal run of bullet lines with one item per
\* line, one table per maximal run of table lines and one paragraph per other non-blank
\* line.
C15_BlocksFollowRuns ==
    /\ ~(list_buffer # << >> /\ table_buffer # << >>)
    /\ pc = "format_done" =>
          /\ list_buffer = << >>
          /\ table_buffer = << >>
          /\ EmittedBlocks = ExpectedBlocks
          /\ fl_html = format_lines_as_html(fl_lines)

\* the function has returned a list of two items, then a table, then a paragraph
C15_Witness ==
    /\ pc = "format_done"
    /\ \E k \in DOMAIN html_parts :
          /\ k + 2 \in DOMAIN html_parts
          /\ html_parts[k].tag = "ul" /\ Len(html_parts[k].body) = 2
          /\ html_parts[k + 1].tag = "table"
          /\ html_parts[k + 2].tag = "p"

\* ---------------------------------------------------------------- spans and tree together
\* main from attach_section_html on, entered with any flat heading list of at most MaxLen
\* records with levels in 1..MaxLevel, in reading order on the page of a one-page document
InitSpans ==
    /\ pdf = <<2>>
    /\ max_pages = None
    /\ json = FALSE
    /\ \E n \in 0..MaxLen : \E levels \in [1..n -> 1..MaxLevel] :
          /\ headings = FlatList(levels)
          /\ pc = IF n = 0 THEN "print" ELSE "attach"
    /\ words = << >>
    /\ Fresh

NextSpans ==
    \/ attach_section_html
    \/ build_tree

SpecSpans == InitSpans /\ [][NextSpans]_vars

\* position (page, top) of the end of span i; no end top stands for the end of the document
EndsBefore(i, page, top) ==
    spans[i].end_top # None => KeyLess(<<page, top>>, <<spans[i].end_page, spans[i].end_top>>)

\* the headings after heading i that lie before the end of its span
InsideSpan(i) ==
    {j \in DOMAIN headings : j > i /\ EndsBefore(i, headings[j].page, headings[j].top)}

\* the nodes below node ref in the tree
RECURSIVE Descendants(_)
Descendants(ref) ==
    UNION {{nodes[ref].children[k]} \cup Descendants(nodes[ref].children[k]) :
              k \in DOMAIN nodes[ref].children}

\* C16: when attach_section_html and build_tree have both run on a flat list, the
\* headings inside the content span of a heading are exactly its descendants in the
\* tree, and the span of a descendant starts after and ends no later than the span of
\* its ancestor.
C16_SpanIsSubtree ==
    (pc = "print" /\ Len(spans) = Len(headings) /\ Len(nodes) = Len(headings)) =>
        \A i \in DOMAIN headings :
            /\ InsideSpan(i) = Descendants(i)
            /\ \A j \in Descendants(i) :
                  /\ KeyLess(<<spans[i].start_page, spans[i].start_top>>,
                             <<spans[j].start_page, spans[j].start_top>>)
                  /\ spans[i].end_top = None \/
                        (/\ spans[j].end_top # None
                         /\ ~KeyLess(<<spans[i].end_page, spans[i].end_top>>,
                                     <<spans[j].end_page, spans[j].end_top>>))

\* both have run, and a heading whose span is ended by a later heading has a child and
\* a grandchild inside that span
C16_Witness ==
    /\ pc = "print"
    /\ Len(spans) = Len(headings)
    /\ \E i \in DOMAIN nodes :
          /\ spans[i].end_top # None
          /\ Cardinality(InsideSpan(i)) >= 2
          /\ \E k \in DOMAIN nodes[i].children : nodes[nodes[i].children[k]].children # << >>
          /\ InsideSpan(i) = Descendants(i)

====
